---- MODULE Spec2Model ----
(***************************************************************************)
(* Model of src/dev/hammingcode.py: num_paritybits, parity, encode and     *)
(* decode, as called by a single-threaded caller that holds one received   *)
(* codeword.  Python lists are 0-based; TLA+ sequences are 1-based, so      *)
(* list element i is seq[i + 1].                                            *)
(***************************************************************************)
EXTENDS Integers, Sequences, FiniteSets, TLC

VARIABLES pc, args, codeword, ret

vars == <<pc, args, codeword, ret>>

\* ------------------------------------------------------------------ bounds
MaxLen == 4   \* longest data sequence / received codeword explored
MaxK == 6     \* largest k handed to num_paritybits directly
MaxP == 3     \* largest parity index handed to parity directly

RECURSIVE SeqsUpTo(_)
SeqsUpTo(n) ==
    IF n = 0 THEN {<<>>}
    ELSE LET S == SeqsUpTo(n - 1)
         IN S \cup {Append(s, b) : s \in {t \in S : Len(t) = n - 1}, b \in {0, 1}}

BitSeqs == SeqsUpTo(MaxLen)

\* ------------------------------------------------- Python integer operators
\* 1 << p
Shl1(p) == 2 ^ p

\* a & b on non-negative integers
RECURSIVE BitAnd(_, _)
BitAnd(a, b) ==
    IF a = 0 \/ b = 0 THEN 0
    ELSE (a % 2) * (b % 2) + 2 * BitAnd(a \div 2, b \div 2)

\* a | b on non-negative integers
RECURSIVE BitOr(_, _)
BitOr(a, b) ==
    IF a = 0 THEN b
    ELSE IF b = 0 THEN a
    ELSE (IF (a % 2) + (b % 2) > 0 THEN 1 ELSE 0) + 2 * BitOr(a \div 2, b \div 2)

\* b ^ 1 on a bit
Xor1(b) == (b + 1) % 2

\* ---------------------------------------------------- Python list operators
\* lst[i] is legal for -len <= i < len; anything else raises IndexError
IndexOK(lst, i) == (0 - Len(lst)) <= i /\ i < Len(lst)

ListGet(lst, i) ==
    IF i >= 0 /\ i < Len(lst) THEN lst[i + 1]
    ELSE IF i < 0 /\ (0 - Len(lst)) <= i THEN lst[Len(lst) + i + 1]
    ELSE 0

ListSet(lst, i, v) ==
    IF i >= 0 /\ i < Len(lst) THEN [lst EXCEPT ![i + 1] = v]
    ELSE IF i < 0 /\ (0 - Len(lst)) <= i THEN [lst EXCEPT ![Len(lst) + i + 1] = v]
    ELSE lst

\* [0] * n
Zeros(n) == [i \in 1..n |-> 0]

\* ---------------------------------------------------------- num_paritybits
\* The local r: the function body assigns r (r += 1), so r is a local name,
\* and no statement binds it before the while condition reads it.
r_local == [bound |-> FALSE, val |-> 0]

RECURSIVE num_paritybits_loop(_, _)
num_paritybits_loop(k, r) ==
    IF ~r.bound THEN [raised |-> "UnboundLocalError", value |-> 0]
    ELSE IF Shl1(r.val) < k + r.val + 1
         THEN num_paritybits_loop(k, [r EXCEPT !.val = r.val + 1])
         ELSE [raised |-> "", value |-> r.val]

num_paritybits(k) == num_paritybits_loop(k, r_local)

\* ------------------------------------------------------------------ parity
\* sum(bit for i, bit in enumerate(codeword) if i & mask), over indices < m
RECURSIVE parity_sum(_, _, _)
parity_sum(cw, mask, m) ==
    IF m = 0 THEN 0
    ELSE parity_sum(cw, mask, m - 1)
         + (IF BitAnd(m - 1, mask) # 0 THEN cw[m] ELSE 0)

parity(cw, p) ==
    LET mask == Shl1(p)
    IN parity_sum(cw, mask, Len(cw)) % 2

\* ------------------------------------------------------------------ encode
\* for i in range(n): if (i & (i + 1)) != 0: codeword[i] = data[j]; j += 1
RECURSIVE encode_fill(_, _, _, _)
encode_fill(cw, data, i, j) ==
    IF i >= Len(cw) THEN [raised |-> "", codeword |-> cw]
    ELSE IF BitAnd(i, i + 1) # 0
         THEN IF ~IndexOK(data, j)
              THEN [raised |-> "IndexError", codeword |-> cw]
              ELSE encode_fill(ListSet(cw, i, ListGet(data, j)), data, i + 1, j + 1)
         ELSE encode_fill(cw, data, i + 1, j)

\* for p in range(r): codeword[(1 << p) - 1] = parity(codeword, p)
RECURSIVE encode_parity(_, _, _)
encode_parity(cw, p, r) ==
    IF p >= r THEN [raised |-> "", codeword |-> cw]
    ELSE IF ~IndexOK(cw, Shl1(p) - 1)
         THEN [raised |-> "IndexError", codeword |-> cw]
         ELSE encode_parity(ListSet(cw, Shl1(p) - 1, parity(cw, p)), p + 1, r)

encode(data) ==
    LET k == Len(data)
        rr == num_paritybits(k)
    IN IF rr.raised # "" THEN [raised |-> rr.raised, value |-> <<>>]
       ELSE LET r == rr.value
                n == k + r
                f == encode_fill(Zeros(n), data, 0, 0)
            IN IF f.raised # "" THEN [raised |-> f.raised, value |-> <<>>]
               ELSE LET q == encode_parity(f.codeword, 0, r)
                    IN IF q.raised # "" THEN [raised |-> q.raised, value |-> <<>>]
                       ELSE [raised |-> "", value |-> q.codeword]

\* ------------------------------------------------------------------ decode
\* Lists are objects: heap.caller is the list the caller passed, heap.local
\* the list decode allocates.  codeword = codeword.copy() rebinds the
\* parameter to a fresh list with the same elements.
\* the parameter keeps naming the caller's list (no copy is made)
list_alias(heap, ref) == [heap |-> heap, ref |-> ref]

list_copy(heap, ref) ==
    [heap |-> [heap EXCEPT !.local = heap[ref]], ref |-> "local"]

\* r = 0; while (1 << r) < n + 1: r += 1
RECURSIVE decode_r_loop(_, _)
decode_r_loop(r, n) ==
    IF Shl1(r) < n + 1 THEN decode_r_loop(r + 1, n) ELSE r

\* the loop test written with <= : one parity index too many
RECURSIVE decode_r_loop_le(_, _)
decode_r_loop_le(r, n) ==
    IF Shl1(r) <= n + 1 THEN decode_r_loop_le(r + 1, n) ELSE r

decode_r_le(n) == decode_r_loop_le(0, n)

decode_r(n) == decode_r_loop(0, n)

\* for p in range(r): expected / received comparison, syndrome |= 1 << p
RECURSIVE decode_syndrome(_, _, _, _)
decode_syndrome(cw, p, r, acc) ==
    IF p >= r THEN acc
    ELSE LET idx == Shl1(p) - 1
         IN IF ~IndexOK(cw, idx)
            THEN [acc EXCEPT !.raised = "IndexError", !.indices = @ \cup {idx}]
            ELSE LET expected == parity(cw, p)
                     received == ListGet(cw, idx)
                 IN decode_syndrome(cw, p + 1, r,
                        [acc EXCEPT !.syndrome = IF expected # received
                                                 THEN BitOr(@, Shl1(p)) ELSE @,
                                    !.indices = @ \cup {idx}])

\* clean = syndrome == 0; if syndrome and syndrome <= n: flip, clean = False
\* the range test written with < : a syndrome naming the last bit is ignored
decode_correct_lt(cw, syndrome, n) ==
    LET clean == (syndrome = 0)
    IN IF syndrome # 0 /\ syndrome < n
       THEN [raised |-> "",
             codeword |-> ListSet(cw, syndrome - 1, Xor1(ListGet(cw, syndrome - 1))),
             clean |-> FALSE, indices |-> {syndrome - 1}]
       ELSE [raised |-> "", codeword |-> cw, clean |-> clean, indices |-> {}]

decode_correct(cw, syndrome, n) ==
    LET clean == (syndrome = 0)
    IN IF syndrome # 0 /\ syndrome <= n
       THEN IF ~IndexOK(cw, syndrome - 1)
            THEN [raised |-> "IndexError", codeword |-> cw, clean |-> clean,
                  indices |-> {syndrome - 1}]
            ELSE [raised |-> "",
                  codeword |-> ListSet(cw, syndrome - 1, Xor1(ListGet(cw, syndrome - 1))),
                  clean |-> FALSE, indices |-> {syndrome - 1}]
       ELSE [raised |-> "", codeword |-> cw, clean |-> clean, indices |-> {}]

\* [bit for i, bit in enumerate(codeword) if (i & (i + 1)) != 0], indices < m
RECURSIVE decode_extract(_, _)
decode_extract(cw, m) ==
    IF m = 0 THEN <<>>
    ELSE IF BitAnd(m - 1, m) # 0
         THEN Append(decode_extract(cw, m - 1), cw[m])
         ELSE decode_extract(cw, m - 1)

decode(heap, ref) ==
    LET c == list_copy(heap, ref)
        n == Len(c.heap[c.ref])
        r == decode_r(n)
        s == decode_syndrome(c.heap[c.ref], 0, r,
                             [raised |-> "", syndrome |-> 0, indices |-> {}])
    IN IF s.raised # ""
       THEN [raised |-> s.raised, data |-> <<>>, clean |-> FALSE,
             syndrome |-> s.syndrome, work |-> c.heap[c.ref],
             heap |-> c.heap, indices |-> s.indices]
       ELSE LET k == decode_correct(c.heap[c.ref], s.syndrome, n)
                heap2 == [c.heap EXCEPT ![c.ref] = k.codeword]
            IN IF k.raised # ""
               THEN [raised |-> k.raised, data |-> <<>>, clean |-> FALSE,
                     syndrome |-> s.syndrome, work |-> heap2[c.ref],
                     heap |-> heap2, indices |-> s.indices \cup k.indices]
               ELSE [raised |-> "",
                     data |-> decode_extract(heap2[c.ref], Len(heap2[c.ref])),
                     clean |-> k.clean,
                     syndrome |-> s.syndrome, work |-> heap2[c.ref],
                     heap |-> heap2, indices |-> s.indices \cup k.indices]

\* ------------------------------------------------------------ the caller
NoArgs == [k |-> 0, p |-> 0, data |-> <<>>, i |-> 0]

NoRet == [raised |-> "", int |-> 0, list |-> <<>>, clean |-> FALSE,
          syndrome |-> 0, work |-> <<>>, indices |-> {}]

\* the channel between encode and decode flips bit i of a codeword
Flip(cw, i) == ListSet(cw, i, Xor1(ListGet(cw, i)))

DecodeRet(d) ==
    [raised |-> d.raised, int |-> 0, list |-> d.data, clean |-> d.clean,
     syndrome |-> d.syndrome, work |-> d.work, indices |-> d.indices]

Init ==
    /\ pc = "idle"
    /\ args = NoArgs
    /\ codeword \in BitSeqs
    /\ ret = NoRet

\* a codeword arrives from the channel: arbitrary bits of arbitrary length
Receive(cw) ==
    /\ pc = "idle"
    /\ codeword' = cw
    /\ UNCHANGED <<pc, args, ret>>

NumParityBits(k) ==
    /\ pc = "idle"
    /\ LET rr == num_paritybits(k)
       IN ret' = [NoRet EXCEPT !.raised = rr.raised, !.int = rr.value]
    /\ args' = [NoArgs EXCEPT !.k = k]
    /\ pc' = "num_paritybits"
    /\ UNCHANGED codeword

Parity(p) ==
    /\ pc = "idle"
    /\ ret' = [NoRet EXCEPT !.int = parity(codeword, p)]
    /\ args' = [NoArgs EXCEPT !.p = p]
    /\ pc' = "parity"
    /\ UNCHANGED codeword

Encode(data) ==
    /\ pc = "idle"
    /\ LET e == encode(data)
       IN ret' = [NoRet EXCEPT !.raised = e.raised, !.list = e.value]
    /\ args' = [NoArgs EXCEPT !.data = data]
    /\ pc' = "encode"
    /\ UNCHANGED codeword

Decode ==
    /\ pc = "idle"
    /\ LET d == decode([caller |-> codeword, local |-> <<>>], "caller")
       IN /\ ret' = DecodeRet(d)
          /\ codeword' = d.heap.caller
    /\ args' = NoArgs
    /\ pc' = "decode"

\* decode(encode(data))
RoundTrip(data) ==
    /\ pc = "idle"
    /\ LET e == encode(data)
       IN IF e.raised # ""
          THEN ret' = [NoRet EXCEPT !.raised = e.raised]
          ELSE ret' = DecodeRet(decode([caller |-> e.value, local |-> <<>>], "caller"))
    /\ args' = [NoArgs EXCEPT !.data = data]
    /\ pc' = "roundtrip"
    /\ UNCHANGED codeword

\* c = encode(data); c[i] ^= 1; decode(c)
FlipTrip(data, i) ==
    /\ pc = "idle"
    /\ LET e == encode(data)
       IN IF e.raised # ""
          THEN ret' = [NoRet EXCEPT !.raised = e.raised]
          ELSE /\ i < Len(e.value)
               /\ ret' = DecodeRet(decode([caller |-> Flip(e.value, i),
                                           local |-> <<>>], "caller"))
    /\ args' = [NoArgs EXCEPT !.data = data, !.i = i]
    /\ pc' = "fliptrip"
    /\ UNCHANGED codeword

\* the caller consumes the result (or handles the exception) and goes on
Return ==
    /\ pc # "idle"
    /\ pc' = "idle"
    /\ args' = NoArgs
    /\ ret' = NoRet
    /\ UNCHANGED codeword

Next ==
    \/ \E cw \in BitSeqs : Receive(cw)
    \/ \E k \in 0..MaxK : NumParityBits(k)
    \/ \E p \in 0..MaxP : Parity(p)
    \/ \E data \in BitSeqs : Encode(data)
    \/ Decode
    \/ \E data \in BitSeqs : RoundTrip(data)
    \/ \E data \in BitSeqs, i \in 0..(2 * MaxLen) : FlipTrip(data, i)
    \/ Return

Spec == Init /\ [][Next]_vars

TypeOK ==
    /\ pc \in {"idle", "num_paritybits", "parity", "encode", "decode",
               "roundtrip", "fliptrip"}
    /\ codeword \in BitSeqs
    /\ ret.raised \in {"", "UnboundLocalError", "IndexError"}

\* ------------------------------------------------- reference definitions
\* (what the documentation says, written without the code's bit tricks)
IsPow2(m) == \E e \in 0..m : 2 ^ e = m

\* r is the least r >= 0 with 2^r >= k + r + 1
MinimalR(k, r) ==
    /\ r >= 0
    /\ 2 ^ r >= k + r + 1
    /\ (r = 0 \/ 2 ^ (r - 1) < k + (r - 1) + 1)

\* 1-based positions of an n-bit codeword whose binary form has bit p set
CoveringSet(n, p) == {pos \in 1..n : (pos \div (2 ^ p)) % 2 = 1}

\* XOR of the bits of cw at the 1-based positions in S
XorOver(cw, S) == Cardinality({pos \in S : cw[pos] = 1}) % 2

\* the bits of cw at 1-based positions <= m that are not powers of two
RECURSIVE NonParityBits(_, _)
NonParityBits(cw, m) ==
    IF m = 0 THEN <<>>
    ELSE IF IsPow2(m) THEN NonParityBits(cw, m - 1)
         ELSE Append(NonParityBits(cw, m - 1), cw[m])

\* every parity check passes on c: parity(c, p) == c[2^p - 1] for every
\* parity slot 2^p <= len(c)
ChecksPass(c) ==
    \A p \in 0..Len(c) : 2 ^ p <= Len(c) => parity(c, p) = c[2 ^ p]

IsBits(s) == \A x \in 1..Len(s) : s[x] \in {0, 1}

\* ------------------------------------------------------------------ claims

\* C1: decode(encode(data)) returns exactly (data, True) for every data
\* sequence.
C1_RoundTrip ==
    pc = "roundtrip" =>
        /\ ret.raised = ""
        /\ ret.list = args.data
        /\ ret.clean = TRUE

\* C2: with c = encode(data), decoding c with bit i flipped returns
\* (data, False) for every position i of c.
C2_SingleFlipCorrected ==
    pc = "fliptrip" =>
        /\ ret.raised = ""
        /\ ret.list = args.data
        /\ ret.clean = FALSE

\* C3: encode returns, with no error path, a codeword on which every parity
\* check passes.
C3_EncoderGuarantee ==
    pc = "encode" =>
        /\ ret.raised = ""
        /\ ChecksPass(ret.list)

\* C4: num_paritybits(k) returns, without any error condition, the minimal
\* r >= 0 with 2^r >= k + r + 1.
C4_ParityCountMinimal ==
    pc = "num_paritybits" =>
        /\ ret.raised = ""
        /\ MinimalR(args.k, ret.int)

\* C5: for k = 0 the parity count is 1 and encode([]) returns [0].
C5_EmptyData ==
    /\ (pc = "num_paritybits" /\ args.k = 0) =>
           (ret.raised = "" /\ ret.int = 1)
    /\ (pc = "encode" /\ args.data = <<>>) =>
           (ret.raised = "" /\ ret.list = <<0>>)

\* C6: decode raises no exception on any bit sequence and returns a
\* (data, clean) pair; every list index it reads or writes lies in [0, n).
C6_DecodeTotal ==
    pc = "decode" =>
        /\ ret.raised = ""
        /\ ret.indices \subseteq 0..(Len(codeword) - 1)
        /\ IsBits(ret.list)
        /\ ret.clean \in BOOLEAN

\* a decode of a codeword of three or more bits that read the parity slots
\* and wrote the bit the syndrome names
C6_Witness ==
    /\ pc = "decode"
    /\ Len(codeword) >= 3
    /\ ret.syndrome >= 1
    /\ (ret.syndrome - 1) \in ret.indices
    /\ Cardinality(ret.indices) >= 2

\* C7: a call of decode leaves the caller's codeword element for element
\* as it was before the call, also when a correction flipped a bit.
C7_CallerUnchanged ==
    [][pc' = "decode" => codeword' = codeword]_vars

\* a decode whose correction flipped a bit of the working copy
C7_Witness ==
    /\ pc = "decode"
    /\ ret.syndrome >= 1
    /\ ret.syndrome <= Len(codeword)
    /\ ret.work # codeword

\* C8: parity(codeword, p) is the XOR of exactly the bits whose 1-based
\* position has bit p set, the parity bit's own slot 2^p included, and the
\* codeword is not modified.
C8_CoveringSet ==
    [][pc' = "parity" =>
          /\ ret'.int = XorOver(codeword, CoveringSet(Len(codeword), args'.p))
          /\ (2 ^ args'.p <= Len(codeword) =>
                  2 ^ args'.p \in CoveringSet(Len(codeword), args'.p))
          /\ codeword' = codeword]_vars

\* C9: when the received codeword differs in exactly one position i from a
\* codeword of the same length on which every parity check passes, the
\* syndrome is nonzero, at most n and equal to i + 1, and the bit decode
\* flips is bit i.
C9_SyndromeLocalises ==
    pc = "decode" =>
        \A i \in 0..(Len(codeword) - 1) :
            ChecksPass(Flip(codeword, i)) =>
                /\ ret.syndrome # 0
                /\ ret.syndrome <= Len(codeword)
                /\ ret.syndrome = i + 1
                /\ ret.work = Flip(codeword, i)

C10_CleanReached == pc = "decode" /\ ret.syndrome = 0 /\ Len(ret.list) >= 1

C10_CorrectedReached ==
    pc = "decode" /\ ret.syndrome = Len(codeword) /\ Len(ret.list) >= 1

====
